---- MODULE Spec2Model ----
(***************************************************************************)
(* Resumable publish/subscribe over a persistent connection:               *)
(*   - the Publisher, in its two variants: the unstable server with the    *)
(*     custom Pubsub (fault injection, backfill pushed at subscribe time)  *)
(*     and server-with-resume.js (lazy backfill-then-live generator);      *)
(*   - the Subscriber (GraphQLClient, single subscription, reconnect);     *)
(*   - the Intermediary (the proxy's wsHooks: recorded subscriptions,      *)
(*     backup buffer, pong checkpoint, restore and replay on reconnect),   *)
(*     in its two variants: the proxy with backup and the earlier proxy.   *)
(* A message is represented by its id. Ids are fresh per publish           *)
(* (randomUUID); the model numbers them 1, 2, ... in creation order.       *)
(***************************************************************************)
EXTENDS Integers, Sequences, FiniteSets, TLC

\* ------------------------------------------------------------------ bounds
MaxPublish == 3
MaxSubs == 1
MaxSessions == 2
MaxCalls == 2
MaxUserPublish == 1
MaxSysPublish == 2
MaxFrames == 1
MaxClientSessions == 2
MaxBackoffSessions == 4
MaxSilentSessions == 6
MaxTime == 1
MaxSources == 1
MaxBackup == 2
MaxProxySources == 2
MaxResends == 1
MaxFaultSubs == 4
MaxConns == 1
MaxPingSubs == 3
MaxPings == 2
MaxScenarioSessions == 4
MaxDeliveries == 4

\* ------------------------------------------------------------------ values
\* null / undefined / absent id (falsy in `if (!id)`)
Null == 0
\* an id that is never the id of a logged message
BogusId == MaxPublish + 2
problems == <<"unresponsive", "close_connection", "break_connection">>
MAX_RECONNECT_ATTEMPTS == 5
INITIAL_RECONNECT_DELAY == 2000
MAX_RECONNECT_DELAY == 30000
\* the callbacks a user can register with subscribe()
Handlers == {"h1", "h2"}
\* `subscription:client-${clientId}`: one fixed id per client
SubscriptionId == "subscription:client"
NullRef == "null"
Impls == {"unstable", "resume"}
\* the Intermediary: the proxy with backup (snapshot replay) or the earlier proxy
ProxyImpls == {"backup", "earlier"}
\* `m.id` of a frame that has no id (connection_init)
Undefined == "undefined"
\* `subscription:client-${clientId}`: the ids the clients of the Intermediary use;
\* clients constructed without a clientId share the first one
SubIdSeq == <<"subscription:client-null", "subscription:client-1">>
SubIds == {SubIdSeq[k] : k \in DOMAIN SubIdSeq}
\* the ids are interchangeable: the c-th connection uses one of the first c
IdsFor(c) == {SubIdSeq[k] : k \in {j \in DOMAIN SubIdSeq : j <= c}}
ClientIds == SubIds \cup {Undefined}
\* the ids of the messages that pass through the Intermediary
DataIds == {1}
\* a frame; `cursor` is payload.variables.id of a start frame and
\* payload.data.onMessage.id of a data frame
Frame(t, i, c) == [type |-> t, id |-> i, cursor |-> c]
\* no subscription recorded for a clientId
NoSubscription == [recorded |-> FALSE, cursor |-> Null]
\* a downstream connection (`source`) with its upstream socket (`target`)
NewSource ==
  [ status |-> "idle",      \* idle (not connected yet), open, closed
    sub |-> Undefined,      \* the subscription id its client uses
    clientId |-> Undefined, \* source.clientId
    target |-> 0,           \* which upstream socket it has: 1 at connect, +1 per reconnect
    started |-> FALSE,      \* its client has a subscription started and not ended
    forwarded |-> Null ]    \* id of the last data frame forwarded on it since its
                            \* subscription was started, while that is active (history)

VARIABLES
  impl,            \* which Publisher runs: the unstable server or server-with-resume
  messages,        \* storage.messages (ids, in insertion order)
  subscriptions,   \* the subscriptions started on the Publisher, in start order
  problemIndex,    \* round-robin index of scheduleSubscriptionProblem
  client,          \* the GraphQLClient object (fields, pending sleeps, handler calls)
  sessions,        \* the WebSocket sessions the client opened, in creation order
  subSession,      \* per Publisher subscription: the session it was started on
  recv,            \* per Publisher subscription: data frames the client received
  user,            \* what the user of the client did so far (history)
  proxyImpl,       \* which Intermediary runs: the proxy with backup or the earlier proxy
  now,             \* Date.now() as the Intermediary reads it
  lastPong,        \* the Intermediary's checkpoint: Date.now() at the last pong
  backup,          \* the Intermediary's buffer: <<[message, timestamp], ...>>
  state,           \* StatefulSubscriptions: the subscription recorded per clientId
  sources,         \* the downstream connections of the Intermediary
  resends          \* the upstream reconnects, in order: what onReconnect and its
                   \* resendMessages() call sent to the new target, and the loop's position

pubVars == <<impl, messages, subscriptions, problemIndex>>
sysVars == <<client, sessions, subSession, recv, user>>
proxyVars == <<proxyImpl, now, lastPong, backup, state, sources, resends>>
vars == <<impl, messages, subscriptions, problemIndex,
          client, sessions, subSession, recv, user,
          proxyImpl, now, lastPong, backup, state, sources, resends>>

\* ------------------------------------------------------------- pure helpers
RECURSIVE findIndexFrom(_, _, _)
findIndexFrom(seq, id, k) ==
  IF k > Len(seq) THEN -1
  ELSE IF seq[k] = id THEN k - 1
  ELSE findIndexFrom(seq, id, k + 1)

\* Array.prototype.findIndex((msg) => msg.id === id): 0-based, -1 when absent
findIndex(seq, id) == findIndexFrom(seq, id, 1)

\* Array.prototype.slice(from): the elements at 0-based positions >= from
slice(seq, from) == SubSeq(seq, from + 1, Len(seq))

Range(seq) == {seq[k] : k \in DOMAIN seq}

\* ------------------------------------------------ Publisher: fault schedule
\* scheduleSubscriptionProblem: the kind given to a subscription
scheduleSubscriptionProblem(selected) ==
  IF selected THEN problems[problemIndex + 1] ELSE "none"

\* a round-robin index that never advances
NextProblemIndexStuck(selected) == problemIndex

NextProblemIndex(selected) ==
  IF selected THEN (problemIndex + 1) % Len(problems) ELSE problemIndex

\* ------------------------------------------------------ Publisher: backfill
\* unstable server: storage.messages.slice(startIndex + 1)
BackfillUnstableSkipsOne(startIndex) == slice(messages, startIndex + 2)
BackfillUnstable(startIndex) == slice(messages, startIndex + 1)

\* server-with-resume.js: storage.messages.slice(startIndex)
BackfillResume(startIndex) == slice(messages, startIndex)

\* what Pubsub.subscribe pushes on the queue right away: nothing without an
\* id (`if (!id) return`) and nothing when the id is not found
unstableMessagesToSendUnguarded(id) ==
  BackfillUnstable(findIndex(messages, id))
unstableMessagesToSend(id) ==
  LET startIndex == findIndex(messages, id) IN
    IF id = Null THEN <<>>
    ELSE IF startIndex # -1 THEN BackfillUnstable(startIndex)
    ELSE <<>>

\* ---------------------------------------------------- Publisher: subscribe
\* Pubsub.subscribe of the unstable server. The listener is registered on the
\* emitter before the backfill is pushed; the only await in between
\* (triggerProblem) suspends for microtasks, so no publish runs in between.
NewUnstable(id, selected) ==
  LET p == scheduleSubscriptionProblem(selected)
      messagesToSend == unstableMessagesToSend(id)
  IN [ id |-> id,
       startLen |-> Len(messages),
       kind |-> "queue",
       listening |-> TRUE,
       sleeping |-> <<>>,
       messagesToSend |-> messagesToSend,
       yielded |-> Len(messagesToSend),
       live |-> <<>>,
       resumeFromNext |-> FALSE,
       out |-> messagesToSend,
       nlive |-> 0,
       problem |-> p,
       timer |-> (p # "none"),
       run |-> FALSE,
       open |-> TRUE ]

\* resolvers.Subscription.onMessage.subscribe of server-with-resume.js.
\* Without id: the live queue of the default pubsub. With a found id: the
\* generator, whose body has not started yet. With an id that is not found the
\* resolver returns undefined, which is no async iterable: the subscription is
\* refused with an error.
NewResume(id) ==
  LET startIndex == findIndex(messages, id)
      found == id # Null /\ startIndex # -1
  IN [ id |-> id,
       startLen |-> Len(messages),
       kind |-> IF id = Null THEN "queue"
                ELSE IF found THEN "generator" ELSE "failed",
       listening |-> (id = Null),
       sleeping |-> <<>>,
       messagesToSend |-> IF found THEN BackfillResume(startIndex) ELSE <<>>,
       yielded |-> 0,
       live |-> <<>>,
       resumeFromNext |-> FALSE,
       out |-> <<>>,
       nlive |-> 0,
       problem |-> "none",
       timer |-> FALSE,
       run |-> FALSE,
       open |-> (id = Null \/ found) ]

\* the cursors a start frame can carry: none, the id of a logged message, or
\* an id that is in no log
Cursors == {Null} \cup Range(messages) \cup {BogusId}

pubsubSubscribe(id, selected) ==
  /\ subscriptions' = Append(subscriptions,
        IF impl = "unstable" THEN NewUnstable(id, selected) ELSE NewResume(id))
  /\ problemIndex' = IF impl = "unstable" THEN NextProblemIndex(selected)
                     ELSE problemIndex
  /\ UNCHANGED <<impl, messages>>

\* ------------------------------------------------------ Publisher: publish
\* What the emit of one message does for one subscription. Unstable server:
\* the listener returns at once when the subscription is unresponsive, else it
\* sleeps MESSAGE_DELAY before the push. Default pubsub (server-with-resume):
\* the message is pushed on the subscription's queue, which the generator's
\* for-await loop reads, or which is the subscription itself (no cursor).
EmitListenerTwice(sub, m) ==
  IF ~sub.listening THEN sub
  ELSE IF impl = "unstable"
       THEN IF sub.problem = "unresponsive" /\ sub.run THEN sub
            ELSE [sub EXCEPT !.sleeping = Append(Append(@, m), m)]
       ELSE IF sub.kind = "generator"
            THEN [sub EXCEPT !.live = Append(Append(@, m), m)]
            ELSE [sub EXCEPT !.out = Append(Append(@, m), m), !.nlive = @ + 2]
Emit(sub, m) ==
  IF ~sub.listening THEN sub
  ELSE IF impl = "unstable"
       THEN IF sub.problem = "unresponsive" /\ sub.run THEN sub
            ELSE [sub EXCEPT !.sleeping = Append(@, m)]
       ELSE IF sub.kind = "generator"
            THEN [sub EXCEPT !.live = Append(@, m)]
            ELSE [sub EXCEPT !.out = Append(@, m), !.nlive = @ + 1]

\* a sendMessage whose ids are not fresh
sendMessageReusesId ==
  /\ Len(messages) < MaxPublish
  /\ LET m == 1 IN
       /\ messages' = Append(messages, m)
       /\ subscriptions' =
            [s \in DOMAIN subscriptions |-> Emit(subscriptions[s], m)]
  /\ UNCHANGED <<impl, problemIndex>>

\* resolvers.Mutation.sendMessage: push on the log (the fresh id of randomUUID
\* is the next unused number), then emit
sendMessage ==
  /\ Len(messages) < MaxPublish
  /\ LET m == Len(messages) + 1 IN
       /\ messages' = Append(messages, m)
       /\ subscriptions' =
            [s \in DOMAIN subscriptions |-> Emit(subscriptions[s], m)]
  /\ UNCHANGED <<impl, problemIndex>>

\* listeners that resume in the reverse of the order in which they slept
listenerPushLatest(s) ==
  /\ s \in DOMAIN subscriptions
  /\ subscriptions[s].sleeping # <<>>
  /\ LET sub == subscriptions[s]
         n == Len(sub.sleeping)
         m == sub.sleeping[n]
     IN subscriptions' = [subscriptions EXCEPT ![s] =
          IF sub.open
          THEN [sub EXCEPT !.sleeping = SubSeq(@, 1, n - 1),
                           !.out = Append(@, m), !.nlive = @ + 1]
          ELSE [sub EXCEPT !.sleeping = SubSeq(@, 1, n - 1)]]
  /\ UNCHANGED <<impl, messages, problemIndex>>

\* a listener whose push never reaches the queue
listenerPushDrops(s) ==
  /\ s \in DOMAIN subscriptions
  /\ subscriptions[s].sleeping # <<>>
  /\ subscriptions' = [subscriptions EXCEPT ![s].sleeping = Tail(@)]
  /\ UNCHANGED <<impl, messages, problemIndex>>

\* the listener of the unstable server resumes after sleep(MESSAGE_DELAY) and
\* pushes on the queue (a push on a closed queue is discarded). Timers of one
\* duration fire in the order they were set.
listenerPush(s) ==
  /\ s \in DOMAIN subscriptions
  /\ subscriptions[s].sleeping # <<>>
  /\ LET sub == subscriptions[s]
         m == Head(sub.sleeping)
     IN subscriptions' = [subscriptions EXCEPT ![s] =
          IF sub.open
          THEN [sub EXCEPT !.sleeping = Tail(@), !.out = Append(@, m),
                           !.nlive = @ + 1]
          ELSE [sub EXCEPT !.sleeping = Tail(@)]]
  /\ UNCHANGED <<impl, messages, problemIndex>>

\* ------------------------------- Publisher: the generator of server-with-resume
\* one yield of the backfill loop
generatorBackfill(s) ==
  /\ s \in DOMAIN subscriptions
  /\ LET sub == subscriptions[s] IN
       /\ sub.kind = "generator" /\ sub.open
       /\ sub.yielded < Len(sub.messagesToSend)
       /\ subscriptions' = [subscriptions EXCEPT ![s] =
            [sub EXCEPT !.yielded = @ + 1,
                        !.out = Append(@, sub.messagesToSend[sub.yielded + 1])]]
  /\ UNCHANGED <<impl, messages, problemIndex>>

\* after the backfill loop: pubsub.subscribe('MESSAGE_SENT')
generatorSubscribe(s) ==
  /\ s \in DOMAIN subscriptions
  /\ LET sub == subscriptions[s] IN
       /\ sub.kind = "generator" /\ sub.open /\ ~sub.listening
       /\ sub.yielded = Len(sub.messagesToSend)
       /\ subscriptions' = [subscriptions EXCEPT ![s] =
            [sub EXCEPT !.listening = TRUE]]
  /\ UNCHANGED <<impl, messages, problemIndex>>

\* one iteration of the for-await loop over the live subscription
generatorLive(s) ==
  /\ s \in DOMAIN subscriptions
  /\ LET sub == subscriptions[s] IN
       /\ sub.kind = "generator" /\ sub.open /\ sub.listening
       /\ sub.live # <<>>
       /\ LET m == Head(sub.live) IN
            subscriptions' = [subscriptions EXCEPT ![s] =
              IF Len(sub.messagesToSend) = 0 \/ sub.resumeFromNext
              THEN [sub EXCEPT !.live = Tail(@), !.out = Append(@, m),
                               !.nlive = @ + 1]
              ELSE IF m = sub.messagesToSend[Len(sub.messagesToSend)]
                   THEN [sub EXCEPT !.live = Tail(@), !.resumeFromNext = TRUE]
                   ELSE [sub EXCEPT !.live = Tail(@)]]
  /\ UNCHANGED <<impl, messages, problemIndex>>

\* ------------------------------------------------- Publisher: fault firing
\* the queue of a subscription closes (stop frame, or its connection went
\* away): subscription.close removes the listener
closeSubscription(sub) ==
  [sub EXCEPT !.open = FALSE, !.listening = FALSE]

\* the timer set by triggerProblem fires: the subscription turns unresponsive,
\* or the socket of its connection is ended / destroyed
problemTimeout(sub) ==
  IF sub.problem = "unresponsive"
  THEN [sub EXCEPT !.timer = FALSE, !.run = TRUE]
  ELSE [closeSubscription(sub) EXCEPT !.timer = FALSE]

problemFires(s) ==
  /\ s \in DOMAIN subscriptions
  /\ subscriptions[s].timer
  /\ subscriptions' = [subscriptions EXCEPT ![s] = problemTimeout(@)]
  /\ UNCHANGED <<impl, messages, problemIndex>>

\* the subscription ends from the subscriber's side
queueClose(s) ==
  /\ s \in DOMAIN subscriptions
  /\ subscriptions[s].open
  /\ subscriptions' = [subscriptions EXCEPT ![s] = closeSubscription(@)]
  /\ UNCHANGED <<impl, messages, problemIndex>>


\* ============================================================== Subscriber
\* GraphQLClient (the single-subscription client). Its methods and event
\* handlers are functions of a world w = [c, ss, threw]: c the object, ss the
\* sessions, threw whether the call ended by throwing.

\* constructor
NewClient ==
  [ ws |-> Null,
    connected |-> FALSE,
    subscriptionId |-> NullRef,
    messageHandler |-> NullRef,
    lastMessageId |-> Null,
    heartbeatInterval |-> FALSE,
    reconnectAttempts |-> 0,
    reconnectDelay |-> INITIAL_RECONNECT_DELAY,
    shouldReconnect |-> TRUE,
    delay |-> 0,          \* the delay of the latest attemptReconnect call
    sleeping |-> 0,       \* attemptReconnect calls inside sleep(delay)
    crashed |-> FALSE,    \* an event handler threw: uncaught exception
    handled |-> <<>> ]    \* the calls of the message handler, in order

\* new WebSocket(url): readyState CONNECTING, the connect() promise pending,
\* the connection timeout armed
NewSession(awaiter) ==
  [ state |-> "connecting",
    err |-> FALSE,          \* an 'error' event is due before 'close'
    init |-> FALSE,         \* connection_init was sent on it
    acked |-> FALSE,        \* connection_ack was delivered
    promise |-> "pending",
    awaiter |-> awaiter,    \* who awaits connect(): "user" or "reconnect"
    timeout |-> TRUE,
    toServer |-> <<>>,      \* start / stop frames in flight to the Publisher
    pings |-> 0,            \* liveness probes the Publisher got on it
    pongs |-> 0 ]           \* pongs the Publisher sent for the latest probe

Throw(w) == [w EXCEPT !.threw = TRUE]

\* this.ws.send(frame): a TypeError when this.ws is null, an exception of the
\* socket while it is CONNECTING, dropped once the socket is closing or closed
wsSend(w, frame) ==
  IF w.c.ws = Null THEN Throw(w)
  ELSE LET k == w.c.ws IN
    IF w.ss[k].state = "connecting" THEN Throw(w)
    ELSE IF w.ss[k].state # "open" THEN w
    ELSE IF frame.type = "connection_init"
         THEN [w EXCEPT !.ss[k].init = TRUE]
         ELSE [w EXCEPT !.ss[k].toServer = Append(@, frame)]

startHeartbeat(w) == [w EXCEPT !.c.heartbeatInterval = TRUE]
stopHeartbeat(w) == [w EXCEPT !.c.heartbeatInterval = FALSE]
clearSubscription(w) == [w EXCEPT !.c.subscriptionId = NullRef]

\* connect(): opens a session; the promise settles in the event handlers
connect(w, awaiter) ==
  [w EXCEPT !.ss = Append(@, NewSession(awaiter)),
            !.c.ws = Len(w.ss) + 1]

\* subscribe(onMessage, id)
subscribeOverwrites(w, onMessage, id) ==
  IF ~w.c.connected THEN Throw(w)
  ELSE wsSend([w EXCEPT !.c.messageHandler = onMessage,
                        !.c.subscriptionId = SubscriptionId],
              [type |-> "start", id |-> id])
subscribe(w, onMessage, id) ==
  IF ~w.c.connected THEN Throw(w)
  ELSE IF w.c.subscriptionId # NullRef THEN w
  ELSE wsSend([w EXCEPT !.c.messageHandler = onMessage,
                        !.c.subscriptionId = SubscriptionId],
              [type |-> "start", id |-> id])

\* Math.min(a, b)
Min(a, b) == IF a <= b THEN a ELSE b

\* the delay attemptReconnect sleeps, computed after the counter's increment
reconnectBackoff(c) ==
  Min(c.reconnectDelay * 2 ^ (c.reconnectAttempts - 1), MAX_RECONNECT_DELAY)

\* attemptReconnect(), up to its sleep(delay)
attemptReconnect(w) ==
  LET w1 == clearSubscription([w EXCEPT !.c.ws = Null])
      w2 == [w1 EXCEPT !.c.reconnectAttempts = @ + 1]
  IN [w2 EXCEPT !.c.delay = reconnectBackoff(w2.c), !.c.sleeping = @ + 1]

\* the catch block of attemptReconnect
reconnectFailed(w) ==
  IF w.c.reconnectAttempts < MAX_RECONNECT_ATTEMPTS
  THEN attemptReconnect([w EXCEPT !.threw = FALSE])
  ELSE [w EXCEPT !.threw = FALSE]

\* attemptReconnect() after its sleep, up to `await this.connect()`
reconnectWake(w) ==
  LET w1 == [w EXCEPT !.c.sleeping = @ - 1] IN
    IF ~w1.c.shouldReconnect THEN w1 ELSE connect(w1, "reconnect")

\* a reconnect that re-subscribes without the resume cursor
resolveWithoutCursor(w, k) ==
  IF w.ss[k].promise # "pending" THEN w
  ELSE LET w1 == [w EXCEPT !.ss[k].promise = "resolved",
                            !.ss[k].timeout = FALSE] IN
    IF w.ss[k].awaiter # "reconnect" THEN w1
    ELSE LET w2 == subscribe(w1, w1.c.messageHandler, Null) IN
      IF w2.threw THEN reconnectFailed(w2) ELSE w2

\* resolve() of the connect() promise of session k; when attemptReconnect
\* awaits it, its continuation re-subscribes with the last observed id.
\* (The connection timeout only rejects a pending promise: once the promise is
\* settled its timer is dropped from the state.)
resolve(w, k) ==
  IF w.ss[k].promise # "pending" THEN w
  ELSE LET w1 == [w EXCEPT !.ss[k].promise = "resolved",
                            !.ss[k].timeout = FALSE] IN
    IF w.ss[k].awaiter # "reconnect" THEN w1
    ELSE LET w2 == subscribe(w1, w1.c.messageHandler, w1.c.lastMessageId) IN
      IF w2.threw THEN reconnectFailed(w2) ELSE w2

\* reject() of the connect() promise of session k
reject(w, k) ==
  IF w.ss[k].promise # "pending" THEN w
  ELSE LET w1 == [w EXCEPT !.ss[k].promise = "rejected",
                            !.ss[k].timeout = FALSE] IN
    IF w.ss[k].awaiter # "reconnect" THEN w1 ELSE reconnectFailed(w1)

\* ws.on('open')
onOpen(w, k) ==
  LET w1 == wsSend(w, [type |-> "connection_init"]) IN
    IF w1.threw THEN [w1 EXCEPT !.c.crashed = TRUE, !.threw = FALSE]
    ELSE [startHeartbeat(w1) EXCEPT
            !.c.reconnectAttempts = 0,
            !.c.reconnectDelay = INITIAL_RECONNECT_DELAY]

\* ws.on('message'), msg.type === 'connection_ack'
onConnectionAck(w, k) == resolve([w EXCEPT !.c.connected = TRUE], k)

\* ws.on('message'), msg.type === 'data': the last id is tracked, then the
\* registered handler (if any) is called
onData(w, k, id) ==
  LET w1 == IF id # Null THEN [w EXCEPT !.c.lastMessageId = id] ELSE w IN
    IF w1.c.messageHandler # NullRef
    THEN [w1 EXCEPT !.c.handled =
            Append(@, [handler |-> w1.c.messageHandler, id |-> id])]
    ELSE w1

\* ws.on('message') with data that is no JSON text: JSON.parse throws a
\* SyntaxError inside the event handler, which the client does not catch: an
\* uncaught exception, the process ends
onMalformed(w, k) == [w EXCEPT !.c.crashed = TRUE]

\* ws.on('message') with a frame none of the branches matches (an unknown
\* type, 'ka', 'complete', or 'data' without payload.data.onMessage)
onUnexpected(w, k) == w

\* ws.on('error')
onError(w, k) ==
  LET w1 == stopHeartbeat(w) IN
    IF ~w1.c.connected THEN reject(w1, k) ELSE w1

\* ws.on('close')
onClose(w, k) ==
  LET w1 == stopHeartbeat([w EXCEPT !.c.connected = FALSE]) IN
    IF w1.c.shouldReconnect
       /\ w1.c.reconnectAttempts < MAX_RECONNECT_ATTEMPTS
    THEN attemptReconnect(w1) ELSE w1

\* the CONNECTION_TIMEOUT timer of connect()
onTimeout(w, k) ==
  IF ~w.c.connected THEN reject(w, k) ELSE w

\* unsubscribe()
unsubscribe(w) ==
  IF w.c.subscriptionId # NullRef /\ w.c.ws # Null
  THEN LET w1 == wsSend(w, [type |-> "stop"]) IN
    IF w1.threw THEN w1
    ELSE [w1 EXCEPT !.c.subscriptionId = NullRef,
                    !.c.messageHandler = NullRef]
  ELSE w

\* ws.close(): the closing handshake starts; closing a socket that is still
\* CONNECTING aborts it with an 'error' before the 'close'
wsClose(w) ==
  LET k == w.c.ws IN
    IF w.ss[k].state = "connecting"
    THEN [w EXCEPT !.ss[k].state = "down", !.ss[k].err = TRUE]
    ELSE IF w.ss[k].state = "open"
    THEN [w EXCEPT !.ss[k].state = "down"]
    ELSE w

\* disconnect(): this.subscriptions is not a field of this client, so
\* this.subscriptions.clear() throws a TypeError after connected was cleared
\* and the statements after it do not run
disconnect(w) ==
  LET w1 == stopHeartbeat([w EXCEPT !.c.shouldReconnect = FALSE]) IN
    IF w1.c.ws # Null
    THEN Throw([wsClose(w1) EXCEPT !.c.connected = FALSE])
    ELSE w1

World == [c |-> client, ss |-> sessions, threw |-> FALSE]

\* ------------------------------------------------- Publisher specification
\* The Publisher alone: subscriptions are started with any cursor, each on a
\* connection of its own.
NewUser ==
  [ calls |-> 0,               \* subscribe / unsubscribe / disconnect calls
    lastCall |-> "none",       \* the last call and the state it was made in
    establishedAt |-> -1,      \* log length when the first start frame was served
    downAt |-> -1,             \* log length when a connected session last went down
    unsubscribedAt |-> -1,     \* log length at the last unsubscribe()
    unsubHandler |-> NullRef,  \* the handler registered at that unsubscribe()
    quit |-> FALSE ]           \* unsubscribe() or disconnect() was called

InitPublisher ==
  /\ impl \in Impls
  /\ messages = <<>>
  /\ subscriptions = <<>>
  /\ problemIndex = 0

InitSys ==
  /\ client = NewClient
  /\ sessions = <<>>
  /\ subSession = <<>>
  /\ recv = <<>>
  /\ user = NewUser

\* the Intermediary right after its module is loaded: lastPong = Date.now()
InitIntermediary(n) ==
  /\ now = 0
  /\ lastPong = now
  /\ backup = <<>>
  /\ state = [i \in ClientIds |-> NoSubscription]
  /\ sources = [c \in 1..n |-> NewSource]
  /\ resends = <<>>

\* Publisher and Subscriber runs: the Intermediary is loaded and left idle
Init == InitPublisher /\ InitSys /\ InitIntermediary(MaxSources) /\ proxyImpl = "backup"

NextPub ==
  \/ sendMessage /\ UNCHANGED <<sysVars, proxyVars>>
  \/ \E id \in Cursors, selected \in BOOLEAN :
       /\ Len(subscriptions) < MaxSubs
       /\ pubsubSubscribe(id, selected)
       /\ UNCHANGED <<sysVars, proxyVars>>
  \/ \E s \in 1..MaxSubs : listenerPush(s) /\ UNCHANGED <<sysVars, proxyVars>>
  \/ \E s \in 1..MaxSubs : generatorBackfill(s) /\ UNCHANGED <<sysVars, proxyVars>>
  \/ \E s \in 1..MaxSubs : generatorSubscribe(s) /\ UNCHANGED <<sysVars, proxyVars>>
  \/ \E s \in 1..MaxSubs : generatorLive(s) /\ UNCHANGED <<sysVars, proxyVars>>
  \/ \E s \in 1..MaxSubs : problemFires(s) /\ UNCHANGED <<sysVars, proxyVars>>
  \/ \E s \in 1..MaxSubs : queueClose(s) /\ UNCHANGED <<sysVars, proxyVars>>

SpecPub == Init /\ [][NextPub]_vars

\* The fault schedule of the unstable server: subscriptions are started one
\* after the other, selected for a fault or not; their fault timers fire and
\* they end in any order.
NextFaults ==
  \/ \E selected \in BOOLEAN :
       /\ Len(subscriptions) < MaxFaultSubs
       /\ pubsubSubscribe(Null, selected)
       /\ UNCHANGED <<sysVars, proxyVars>>
  \/ \E s \in 1..MaxFaultSubs : problemFires(s) /\ UNCHANGED <<sysVars, proxyVars>>
  \/ \E s \in 1..MaxFaultSubs : queueClose(s) /\ UNCHANGED <<sysVars, proxyVars>>

InitFaults == Init /\ impl = "unstable"

SpecFaults == InitFaults /\ [][NextFaults]_vars

\* ======================================================= Subscriber + Publisher
\* The client connected directly to the Publisher (as test-server-unstable.js
\* runs it). Start and stop frames travel to the Publisher in order; the data
\* frames of a subscription reach the client in order while the session is up.

\* the Publisher ends the subscriptions of the sessions that went away. What
\* is still in flight for them has no effect any more (a push on the closed
\* queue is discarded, ending an ended socket does nothing) and is dropped.
connectionGone(sub) ==
  [closeSubscription(sub) EXCEPT !.sleeping = <<>>, !.live = <<>>,
                                 !.timer = FALSE]

SyncSubs(subs, ss) ==
  [s \in DOMAIN subs |->
     IF ss[subSession[s]].state \in {"down", "closed"}
        /\ (subs[s].open \/ subs[s].timer \/ subs[s].sleeping # <<>>)
     THEN connectionGone(subs[s]) ELSE subs[s]]

\* a session goes down; a connected one marks the start of a disconnect
Down(ss, k) == [ss EXCEPT ![k].state = "down"]
NoteDown(k) ==
  IF sessions[k].acked THEN [user EXCEPT !.downAt = Len(messages)] ELSE user

Alive == ~client.crashed

\* ---- the user of the client
userConnect ==
  /\ Alive /\ Len(sessions) = 0
  /\ LET w == connect(World, "user") IN
       /\ client' = w.c /\ sessions' = w.ss
  /\ UNCHANGED <<pubVars, proxyVars, subSession, recv, user>>

userSubscribe(h) ==
  /\ Alive /\ Len(sessions) > 0 /\ user.calls < MaxCalls
  /\ LET w == subscribe(World, h, Null) IN
       /\ client' = w.c /\ sessions' = w.ss
       /\ user' = [user EXCEPT
            !.calls = @ + 1,
            !.lastCall = IF ~client.connected THEN "subscribe-unconnected"
                         ELSE IF client.subscriptionId # NullRef
                              THEN "subscribe-active" ELSE "subscribe",
            !.unsubscribedAt =
               IF w.c.messageHandler # client.messageHandler THEN -1 ELSE @,
            !.unsubHandler =
               IF w.c.messageHandler # client.messageHandler THEN NullRef ELSE @]
  /\ UNCHANGED <<pubVars, proxyVars, subSession, recv>>

userUnsubscribe ==
  /\ Alive /\ Len(sessions) > 0 /\ user.calls < MaxCalls
  /\ LET w == unsubscribe(World) IN
       /\ client' = w.c /\ sessions' = w.ss
       /\ user' = [user EXCEPT
            !.calls = @ + 1, !.lastCall = "unsubscribe", !.quit = TRUE,
            !.unsubscribedAt = IF w.threw THEN @ ELSE Len(messages),
            !.unsubHandler = IF w.threw THEN @ ELSE client.messageHandler]
  /\ UNCHANGED <<pubVars, proxyVars, subSession, recv>>

userDisconnect ==
  /\ Alive /\ Len(sessions) > 0 /\ user.calls < MaxCalls
  /\ LET w == disconnect(World) IN
       /\ client' = w.c /\ sessions' = w.ss
       /\ subscriptions' = SyncSubs(subscriptions, w.ss)
       /\ user' = [user EXCEPT
            !.calls = @ + 1, !.quit = TRUE,
            !.lastCall = IF w.threw THEN "disconnect-threw" ELSE "disconnect",
            !.downAt = IF client.ws # Null /\ sessions[client.ws].state = "open"
                          /\ sessions[client.ws].acked
                       THEN Len(messages) ELSE @]
  /\ UNCHANGED <<impl, messages, problemIndex, proxyVars, subSession, recv>>

\* ---- the transport
sessionOpen(k) ==
  /\ Alive /\ k \in DOMAIN sessions /\ sessions[k].state = "connecting"
  /\ LET w == onOpen([World EXCEPT !.ss[k].state = "open"], k) IN
       /\ client' = w.c /\ sessions' = w.ss
  /\ UNCHANGED <<pubVars, proxyVars, subSession, recv, user>>

\* the connection cannot be established: 'error', then 'close'
sessionRefused(k) ==
  /\ Alive /\ k \in DOMAIN sessions /\ sessions[k].state = "connecting"
  /\ sessions' = [sessions EXCEPT ![k].state = "down", ![k].err = TRUE]
  /\ UNCHANGED <<pubVars, proxyVars, client, subSession, recv, user>>

\* the network, or an intermediary, breaks an established session
transportFails(k) ==
  /\ Alive /\ k \in DOMAIN sessions /\ sessions[k].state = "open"
  /\ sessions' = Down(sessions, k)
  /\ subscriptions' = SyncSubs(subscriptions, sessions')
  /\ user' = NoteDown(k)
  /\ UNCHANGED <<impl, messages, problemIndex, proxyVars, client, subSession, recv>>

deliverError(k) ==
  /\ Alive /\ k \in DOMAIN sessions
  /\ sessions[k].state = "down" /\ sessions[k].err
  /\ LET w == onError([World EXCEPT !.ss[k].err = FALSE], k) IN
       /\ client' = w.c /\ sessions' = w.ss
  /\ UNCHANGED <<pubVars, proxyVars, subSession, recv, user>>

deliverClose(k) ==
  /\ Alive /\ k \in DOMAIN sessions
  /\ sessions[k].state = "down" /\ ~sessions[k].err
  /\ LET w == onClose([World EXCEPT !.ss[k].state = "closed"], k) IN
       /\ client' = w.c /\ sessions' = w.ss
  /\ UNCHANGED <<pubVars, proxyVars, subSession, recv, user>>

timeoutFires(k) ==
  /\ Alive /\ k \in DOMAIN sessions /\ sessions[k].timeout
  /\ LET w == onTimeout([World EXCEPT !.ss[k].timeout = FALSE], k) IN
       /\ client' = w.c /\ sessions' = w.ss
  /\ UNCHANGED <<pubVars, proxyVars, subSession, recv, user>>

\* sleep(delay) of attemptReconnect is over
reconnectWakes ==
  /\ Alive /\ client.sleeping > 0
  /\ LET w == reconnectWake(World) IN
       /\ client' = w.c /\ sessions' = w.ss
  /\ UNCHANGED <<pubVars, proxyVars, subSession, recv, user>>

\* ---- the Publisher's end of a session
\* connection_init is answered by connection_ack
serverAck(k) ==
  /\ Alive /\ k \in DOMAIN sessions /\ sessions[k].state = "open"
  /\ sessions[k].init /\ ~sessions[k].acked
  /\ LET w == onConnectionAck([World EXCEPT !.ss[k].acked = TRUE], k) IN
       /\ client' = w.c /\ sessions' = w.ss
  /\ UNCHANGED <<pubVars, proxyVars, subSession, recv, user>>

\* a start frame arrives: the subscription is started on the Publisher
serverStart(k, selected) ==
  /\ k \in DOMAIN sessions /\ sessions[k].state = "open"
  /\ sessions[k].toServer # <<>>
  /\ Head(sessions[k].toServer).type = "start"
  /\ pubsubSubscribe(Head(sessions[k].toServer).id, selected)
  /\ sessions' = [sessions EXCEPT ![k].toServer = Tail(@)]
  /\ subSession' = Append(subSession, k)
  /\ recv' = Append(recv, 0)
  /\ user' = IF user.establishedAt = -1
             THEN [user EXCEPT !.establishedAt = Len(messages)] ELSE user
  /\ UNCHANGED <<client, proxyVars>>

\* a stop frame arrives: the subscription of that session ends
serverStop(k) ==
  /\ k \in DOMAIN sessions /\ sessions[k].state = "open"
  /\ sessions[k].toServer # <<>>
  /\ Head(sessions[k].toServer).type = "stop"
  /\ subscriptions' = [s \in DOMAIN subscriptions |->
        IF subSession[s] = k /\ subscriptions[s].open
        THEN closeSubscription(subscriptions[s]) ELSE subscriptions[s]]
  /\ sessions' = [sessions EXCEPT ![k].toServer = Tail(@)]
  /\ UNCHANGED <<impl, messages, problemIndex, proxyVars, client, subSession, recv, user>>

\* the next data frame of a subscription reaches the client
deliverData(s) ==
  /\ Alive /\ s \in DOMAIN subscriptions
  /\ sessions[subSession[s]].state = "open"
  /\ recv[s] < Len(subscriptions[s].out)
  /\ LET w == onData(World, subSession[s], subscriptions[s].out[recv[s] + 1]) IN
       /\ client' = w.c /\ sessions' = w.ss
  /\ recv' = [recv EXCEPT ![s] = @ + 1]
  /\ UNCHANGED <<pubVars, proxyVars, subSession, user>>

\* the fault of a subscription fires; the closing kinds take the session down
sysProblemFires(s) ==
  /\ s \in DOMAIN subscriptions
  /\ subscriptions[s].timer
  /\ LET k == subSession[s]
         closes == subscriptions[s].problem # "unresponsive"
                   /\ sessions[k].state = "open"
     IN /\ sessions' = IF closes THEN Down(sessions, k) ELSE sessions
        /\ subscriptions' = SyncSubs(
              [subscriptions EXCEPT ![s] = problemTimeout(@)], sessions')
        /\ user' = IF closes THEN NoteDown(k) ELSE user
  /\ UNCHANGED <<impl, messages, problemIndex, proxyVars, client, subSession, recv>>

\* The run of runTest / createClient against either Publisher: the user
\* awaits connect(), subscribes once, and neither unsubscribes nor disconnects.
NextSys ==
  \/ userConnect
  \/ /\ user.lastCall = "none"
     /\ Len(sessions) > 0 /\ sessions[1].promise = "resolved"
     /\ userSubscribe("h1")
  \/ \E k \in 1..MaxSessions : sessionOpen(k)
  \/ \E k \in 1..MaxSessions : sessionRefused(k)
  \/ \E k \in 1..MaxSessions : transportFails(k)
  \/ \E k \in 1..MaxSessions : deliverError(k)
  \/ \E k \in 1..MaxSessions : deliverClose(k)
  \/ \E k \in 1..MaxSessions : timeoutFires(k)
  \/ (~client.shouldReconnect \/ Len(sessions) < MaxSessions) /\ reconnectWakes
  \/ \E k \in 1..MaxSessions : serverAck(k)
  \/ \E k \in 1..MaxSessions, selected \in BOOLEAN : serverStart(k, selected)
  \/ \E s \in 1..MaxSessions : deliverData(s)
  \/ \E s \in 1..MaxSessions : sysProblemFires(s)
  \/ Len(messages) < MaxSysPublish /\ sendMessage /\ UNCHANGED <<sysVars, proxyVars>>
  \/ \E s \in 1..MaxSessions : listenerPush(s) /\ UNCHANGED <<sysVars, proxyVars>>
  \/ \E s \in 1..MaxSessions : generatorBackfill(s) /\ UNCHANGED <<sysVars, proxyVars>>
  \/ \E s \in 1..MaxSessions : generatorSubscribe(s) /\ UNCHANGED <<sysVars, proxyVars>>
  \/ \E s \in 1..MaxSessions : generatorLive(s) /\ UNCHANGED <<sysVars, proxyVars>>

SpecSys == Init /\ [][NextSys]_vars

\* ====================================== Subscriber + unstable Publisher: faults
\* The run of test-server-unstable.js with a Publisher that accepts and
\* acknowledges every connection: the user connects and subscribes once; a
\* session ends when a closing fault fires on it, or when the network breaks
\* it after its subscription turned unresponsive.
unresponsiveDropped(k) ==
  /\ \E s \in DOMAIN subscriptions :
        /\ subSession[s] = k
        /\ subscriptions[s].problem = "unresponsive" /\ subscriptions[s].run
  /\ transportFails(k)

NextScenario ==
  \/ userConnect
  \/ /\ user.lastCall = "none"
     /\ Len(sessions) > 0 /\ sessions[1].promise = "resolved"
     /\ userSubscribe("h1")
  \/ \E k \in 1..MaxScenarioSessions : sessionOpen(k)
  \/ \E k \in 1..MaxScenarioSessions : unresponsiveDropped(k)
  \/ \E k \in 1..MaxScenarioSessions : deliverClose(k)
  \/ Len(sessions) < MaxScenarioSessions /\ reconnectWakes
  \/ \E k \in 1..MaxScenarioSessions : serverAck(k)
  \/ \E k \in 1..MaxScenarioSessions, selected \in BOOLEAN : serverStart(k, selected)
  \/ \E s \in 1..MaxScenarioSessions : deliverData(s)
  \/ \E s \in 1..MaxScenarioSessions : sysProblemFires(s)
  \/ Len(messages) < MaxUserPublish /\ sendMessage /\ UNCHANGED <<sysVars, proxyVars>>
  \/ \E s \in 1..MaxScenarioSessions : listenerPush(s) /\ UNCHANGED <<sysVars, proxyVars>>

\* the event loops of the client and of the Publisher run what is ready: an
\* event that is due is delivered, a sleep ends, a frame received is served
FairScenario ==
  /\ WF_vars(\E k \in 1..MaxScenarioSessions : sessionOpen(k))
  /\ WF_vars(\E k \in 1..MaxScenarioSessions : deliverClose(k))
  /\ WF_vars(Len(sessions) < MaxScenarioSessions /\ reconnectWakes)
  /\ WF_vars(\E k \in 1..MaxScenarioSessions : serverAck(k))
  /\ WF_vars(\E k \in 1..MaxScenarioSessions, selected \in BOOLEAN :
               serverStart(k, selected))

SpecScenario == InitFaults /\ [][NextScenario]_vars /\ FairScenario

\* ================================================= Publisher + its connections
\* ---- liveness probes on the connections of the unstable server
\* the 'ping' handler Pubsub.subscribe registers for a subscription on the
\* socket of its connection: it sends a pong unless that subscription is
\* unresponsive. The handler is never removed.
pingHandlerPongs(sub) == ~(sub.problem = "unresponsive" /\ sub.run)

\* a ping frame on connection k: autoPong is off, every handler registered on
\* the socket runs
pongsFor(k) ==
  Cardinality({s \in DOMAIN subscriptions :
                 subSession[s] = k /\ pingHandlerPongs(subscriptions[s])})

\* a client with several subscriptions (the first two clients of
\* server-simple.js) has connected and was acknowledged
connectionAccepted ==
  /\ Len(sessions) < MaxConns
  /\ sessions' = Append(sessions,
        [NewSession("user") EXCEPT !.state = "open", !.init = TRUE,
           !.acked = TRUE, !.promise = "resolved", !.timeout = FALSE])
  /\ UNCHANGED <<pubVars, proxyVars, client, subSession, recv, user>>

\* that client writes a start frame without cursor
startArrives(k) ==
  /\ k \in DOMAIN sessions /\ sessions[k].state = "open"
  /\ Len(subscriptions) + Len(sessions[k].toServer) < MaxPingSubs
  /\ sessions' = [sessions EXCEPT ![k].toServer =
                    Append(@, [type |-> "start", id |-> Null])]
  /\ UNCHANGED <<pubVars, proxyVars, client, subSession, recv, user>>

\* the heartbeat of the client: ws.ping() reaches the Publisher
serverPing(k) ==
  /\ k \in DOMAIN sessions /\ sessions[k].state = "open"
  /\ sessions[k].pings < MaxPings
  /\ sessions' = [sessions EXCEPT ![k].pings = @ + 1, ![k].pongs = pongsFor(k)]
  /\ UNCHANGED <<pubVars, proxyVars, client, subSession, recv, user>>

NextPing ==
  \/ connectionAccepted
  \/ \E k \in 1..MaxConns : startArrives(k)
  \/ \E k \in 1..MaxConns, selected \in BOOLEAN : serverStart(k, selected)
  \/ \E k \in 1..MaxConns : serverPing(k)
  \/ \E s \in 1..MaxPingSubs : sysProblemFires(s)

SpecPing == InitFaults /\ [][NextPing]_vars

\* ================================================ Subscriber + unstable Publisher
\* The user of the client subscribes and unsubscribes at any time; the
\* Publisher injects no fault, the transport can still break.
NextUser ==
  \/ userConnect
  \/ \E h \in Handlers : userSubscribe(h)
  \/ userUnsubscribe
  \/ \E k \in 1..MaxSessions : sessionOpen(k)
  \/ \E k \in 1..MaxSessions : sessionRefused(k)
  \/ \E k \in 1..MaxSessions : transportFails(k)
  \/ \E k \in 1..MaxSessions : deliverError(k)
  \/ \E k \in 1..MaxSessions : deliverClose(k)
  \/ \E k \in 1..MaxSessions : timeoutFires(k)
  \/ (~client.shouldReconnect \/ Len(sessions) < MaxSessions) /\ reconnectWakes
  \/ \E k \in 1..MaxSessions : serverAck(k)
  \/ \E k \in 1..MaxSessions : serverStart(k, FALSE)
  \/ \E k \in 1..MaxSessions : serverStop(k)
  \/ \E s \in 1..MaxSessions + MaxCalls : deliverData(s)
  \/ Len(messages) < MaxUserPublish /\ sendMessage /\ UNCHANGED <<sysVars, proxyVars>>
  \/ \E s \in 1..MaxSessions + MaxCalls : listenerPush(s) /\ UNCHANGED <<sysVars, proxyVars>>

InitUser == Init /\ impl = "unstable"

SpecUser == InitUser /\ [][NextUser]_vars

\* ========================================================= Subscriber alone
\* The client against any Publisher or Intermediary: the user calls subscribe,
\* unsubscribe and disconnect at any time; on an open session on which a start
\* frame was sent, a data frame with any id can arrive at any time (backfill,
\* live feed, replay, duplicates).
Started(k) ==
  \E i \in DOMAIN sessions[k].toServer : sessions[k].toServer[i].type = "start"

anyData(k, id) ==
  /\ Alive /\ k \in DOMAIN sessions /\ sessions[k].state = "open"
  /\ Started(k)
  /\ Len(client.handled) < MaxFrames
  /\ LET w == onData(World, k, id) IN
       /\ client' = w.c /\ sessions' = w.ss
  /\ UNCHANGED <<pubVars, proxyVars, subSession, recv, user>>

NextClient ==
  \/ userConnect
  \/ \E h \in Handlers : userSubscribe(h)
  \/ userUnsubscribe
  \/ userDisconnect
  \/ \E k \in 1..MaxClientSessions : sessionOpen(k)
  \/ \E k \in 1..MaxClientSessions : sessionRefused(k)
  \/ \E k \in 1..MaxClientSessions : transportFails(k)
  \/ \E k \in 1..MaxClientSessions : deliverError(k)
  \/ \E k \in 1..MaxClientSessions : deliverClose(k)
  \/ \E k \in 1..MaxClientSessions : timeoutFires(k)
  \/ (~client.shouldReconnect \/ Len(sessions) < MaxClientSessions) /\ reconnectWakes
  \/ \E k \in 1..MaxClientSessions : serverAck(k)
  \/ \E k \in 1..MaxClientSessions, id \in 1..MaxFrames : anyData(k, id)

InitClient == Init /\ impl = "unstable"

SpecClient == InitClient /\ [][NextClient]_vars

\* ================================================ Subscriber: frames received
\* The client on the session of its connect(), which the server acknowledges
\* or not: besides data frames, a frame that is malformed or that the client
\* does not expect can arrive at any time.
FrameKinds == {"malformed", "unexpected"}

anyFrame(k, kind) ==
  /\ Alive /\ k \in DOMAIN sessions /\ sessions[k].state = "open"
  /\ LET w == IF kind = "malformed" THEN onMalformed(World, k)
              ELSE onUnexpected(World, k) IN
       /\ client' = w.c /\ sessions' = w.ss
  /\ UNCHANGED <<pubVars, proxyVars, subSession, recv, user>>

NextFrames ==
  \/ userConnect
  \/ \E h \in Handlers : userSubscribe(h)
  \/ userUnsubscribe
  \/ \E k \in 1..MaxConns : sessionOpen(k)
  \/ \E k \in 1..MaxConns : timeoutFires(k)
  \/ \E k \in 1..MaxConns : serverAck(k)
  \/ \E k \in 1..MaxConns, id \in 1..MaxFrames : anyData(k, id)
  \/ \E k \in 1..MaxConns, kind \in FrameKinds : anyFrame(k, kind)

SpecFrames == InitClient /\ [][NextFrames]_vars

\* ================================================= Subscriber: the trackers
\* ClientTracker of the test drivers: the handler it registers with
\* client.subscribe keeps the bookkeeping of what the client received. The
\* driver with statistics keeps a list and records duplicates; run-final.js
\* keeps a Set (here: its elements in insertion order) and counters.
TrackerImpls == {"run", "run-final"}

NewTracker ==
  [ receivedMessages |-> << >>,
    lastReceivedMessageId |-> Null,
    duplicatedMessages |-> << >>,   \* globalStats.duplicatedMessages
    messagesReceived |-> 0 ]

\* the handler of the driver with statistics
onMessageRun(tr, id) ==
  IF id \in Range(tr.receivedMessages)
  THEN [tr EXCEPT !.duplicatedMessages = Append(@, id)]
  ELSE [tr EXCEPT !.receivedMessages = Append(@, id),
                  !.lastReceivedMessageId = id]

\* the handler of run-final.js
onMessageFinal(tr, id) ==
  [tr EXCEPT !.messagesReceived = @ + 1,
             !.receivedMessages = IF id \in Range(@) THEN @ ELSE Append(@, id),
             !.lastReceivedMessageId = id]

trackerOnMessage(ti, tr, id) ==
  IF ti = "run" THEN onMessageRun(tr, id) ELSE onMessageFinal(tr, id)

\* the tracker after the handler calls h, in order
RECURSIVE Track(_, _)
Track(ti, h) ==
  IF h = << >> THEN NewTracker
  ELSE trackerOnMessage(ti, Track(ti, SubSeq(h, 1, Len(h) - 1)), h[Len(h)].id)

\* the lost messages the report counts: the sent ids that are not in the
\* list (driver with statistics); Math.max(0, expectedMessages.size -
\* receivedMessages.size) (run-final.js)
lostMessages(ti, tr) ==
  IF ti = "run"
  THEN Cardinality({i \in DOMAIN messages :
                      messages[i] \notin Range(tr.receivedMessages)})
  ELSE IF Len(messages) > Len(tr.receivedMessages)
       THEN Len(messages) - Len(tr.receivedMessages) ELSE 0

\* a data frame with the id of any published message reaches the client
\* (backfill, live feed, replay by the Intermediary)
dataArrives(k, id) ==
  /\ Alive /\ k \in DOMAIN sessions /\ sessions[k].state = "open"
  /\ Started(k)
  /\ id \in Range(messages)
  /\ Len(client.handled) < MaxDeliveries
  /\ LET w == onData(World, k, id) IN
       /\ client' = w.c /\ sessions' = w.ss
  /\ UNCHANGED <<pubVars, proxyVars, subSession, recv, user>>

NextTracker ==
  \/ userConnect
  \/ /\ user.lastCall = "none"
     /\ Len(sessions) > 0 /\ sessions[1].promise = "resolved"
     /\ userSubscribe("h1")
  \/ \E k \in 1..MaxConns : sessionOpen(k)
  \/ \E k \in 1..MaxConns : serverAck(k)
  \/ sendMessage /\ UNCHANGED <<sysVars, proxyVars>>
  \/ \E k \in 1..MaxConns, id \in 1..MaxPublish : dataArrives(k, id)

SpecTracker == InitClient /\ [][NextTracker]_vars

\* ==================================================== Subscriber: reconnection
\* The client after connect() and one subscribe(), with a server that can
\* refuse, accept, ignore, acknowledge and drop sessions; the user makes no
\* further call.
NextBackoff ==
  \/ userConnect
  \/ /\ user.lastCall = "none"
     /\ Len(sessions) > 0 /\ sessions[1].promise = "resolved"
     /\ userSubscribe("h1")
  \/ \E k \in 1..MaxBackoffSessions : sessionOpen(k)
  \/ \E k \in 1..MaxBackoffSessions : sessionRefused(k)
  \/ \E k \in 1..MaxBackoffSessions : transportFails(k)
  \/ \E k \in 1..MaxBackoffSessions : deliverError(k)
  \/ \E k \in 1..MaxBackoffSessions : deliverClose(k)
  \/ \E k \in 1..MaxBackoffSessions : timeoutFires(k)
  \/ (~client.shouldReconnect \/ Len(sessions) < MaxBackoffSessions) /\ reconnectWakes
  \/ \E k \in 1..MaxBackoffSessions : serverAck(k)

SpecBackoff == InitClient /\ [][NextBackoff]_vars

\* ========================================== Subscriber and a server that hangs
\* The server accepts every connection and never acknowledges one; a session
\* times out, or is dropped while the client holds it.
NextSilent ==
  \/ userConnect
  \/ \E k \in 1..MaxSilentSessions : sessionOpen(k)
  \/ \E k \in 1..MaxSilentSessions : k = client.ws /\ transportFails(k)
  \/ \E k \in 1..MaxSilentSessions : deliverClose(k)
  \/ \E k \in 1..MaxSilentSessions : timeoutFires(k)
  \/ (~client.shouldReconnect \/ Len(sessions) < MaxSilentSessions) /\ reconnectWakes

SpecSilent == InitClient /\ [][NextSilent]_vars

\* ============================================================= Intermediary
\* ---- StatefulSubscriptions ({ name: 'onMessage', key: 'id' }), per clientId
\* record the subscription with the variables of its start frame
addSubscription(st, clientId, variables) ==
  [st EXCEPT ![clientId] = [recorded |-> TRUE, cursor |-> variables]]

\* the key of the data just forwarded becomes the replay state of the record
updateSubscriptionState(st, clientId, data) ==
  IF st[clientId].recorded THEN [st EXCEPT ![clientId].cursor = data] ELSE st

removeSubscription(st, clientId) ==
  [st EXCEPT ![clientId] = NoSubscription]

removeAllSubscriptions(st, clientId) ==
  [st EXCEPT ![clientId] = [recorded |-> FALSE, cursor |-> Null]]

\* the start frames sent to the new target: one per recorded subscription,
\* asking for what follows the recorded replay state
restoreSubscriptions(st, clientId) ==
  IF st[clientId].recorded
  THEN << Frame("start", clientId, st[clientId].cursor) >>
  ELSE << >>

\* ---- the hooks' own data
\* the frames a client writes on its connection
ClientFrames(id) ==
  {Frame("connection_init", Undefined, Null), Frame("stop", id, Null)}
    \cup {Frame("start", id, x) : x \in DataIds \cup {Null}}

\* the frames the Publisher writes on a subscription: data, and the two
\* frames that end it, complete and error
ServerFrames(id) ==
  {Frame("complete", id, Null), Frame("error", id, Null)}
    \cup {Frame("data", id, x) : x \in DataIds}

\* a filter that keeps the entry stamped at the checkpoint itself
pongFilterKeepsCheckpoint(b, lp) == SelectSeq(b, LAMBDA m : m.timestamp >= lp)

\* onPong: backup.filter(message => message.timestamp > lastPong)
pongFilter(b, lp) == SelectSeq(b, LAMBDA m : m.timestamp > lp)

\* the entries resendMessages sends, proxy with backup:
\* backup.filter(m => m.timestamp > lastPong && m.timestamp <= now)
messagesToResend(b, lp, nw) ==
  SelectSeq(b, LAMBDA m : m.timestamp > lp /\ m.timestamp <= nw)

\* the loop test of the earlier proxy: an entry is skipped
\* if (m.timestamp < lastPong || m.timestamp > now)
skipped(m, lp, nw) == m.timestamp < lp \/ m.timestamp > nw

\* the array a resendMessages() call iterates: the snapshot it filtered
\* (proxy with backup), or the buffer itself (earlier proxy) until onPong
\* makes `backup` a new array
arrayOf(r) == IF r.live THEN backup ELSE r.arr

\* index of the next entry the loop sends, 0 when the loop ends
nextToSend(r) ==
  LET a == arrayOf(r)
      ok(i) == proxyImpl = "backup" \/ ~skipped(a[i], lastPong, r.now)
      S == {i \in r.pos..Len(a) : ok(i)}
  IN IF S = {} THEN 0 ELSE CHOOSE i \in S : \A j \in S : i <= j

\* one turn of the loop of resendMessages: target.send(m.message), then wait
resendTurn(r) ==
  LET i == nextToSend(r)
  IN IF i = 0 THEN [r EXCEPT !.done = TRUE]
     ELSE [r EXCEPT !.pos = i + 1,
                    !.out = Append(@, [via |-> "resend",
                                       message |-> arrayOf(r)[i].message])]

\* resendMessages(target) up to its first wait
resendMessages(c, target, restored) ==
  [ source |-> c, target |-> target,
    out |-> restored,     \* what the target was sent so far, in send order
    live |-> proxyImpl = "earlier",
    arr |-> IF proxyImpl = "backup"
            THEN messagesToResend(backup, lastPong, now) ELSE << >>,
    pos |-> 1, now |-> now, done |-> FALSE,
    \* history: what the call found
    at |-> [ backup |-> backup, lastPong |-> lastPong,
             recorded |-> state[sources[c].clientId],
             forwarded |-> sources[c].forwarded ] ]

\* ---- hooks
\* a client connects to the Intermediary (the hook only logs)
onConnect(c, id) ==
  /\ sources[c].status = "idle"
  /\ sources' = [sources EXCEPT ![c].status = "open", ![c].sub = id, ![c].target = 1]
  /\ UNCHANGED <<proxyImpl, now, lastPong, backup, state, resends>>

\* the hook on an inbound frame m of connection c, whichever client wrote it
incomingFrame(c, m) ==
  LET buffered == proxyImpl = "earlier" \/ m.type = "start"
  IN
  /\ sources[c].status = "open"
  /\ buffered => Len(backup) < MaxBackup
  /\ sources' = [sources EXCEPT ![c].clientId = m.id,
                   ![c].started = IF m.type = "connection_init" THEN @
                                  ELSE m.type = "start",
                   ![c].forwarded = IF m.type = "connection_init" THEN @ ELSE Null]
  /\ backup' = IF buffered
               THEN Append(backup, [message |-> m, timestamp |-> now])
               ELSE backup
  /\ state' = IF m.type = "start"
              THEN addSubscription(state, m.id, m.cursor) ELSE state
  /\ UNCHANGED <<proxyImpl, now, lastPong, resends>>

\* the hook on a frame of the client with one subscription per connection
onIncomingMessage(c, m) ==
  /\ m \in ClientFrames(sources[c].sub)
  \* a client writes connection_init first, and stop after a start
  /\ m.type = "connection_init" => sources[c].clientId = Undefined
  /\ m.type = "stop" => sources[c].clientId # Undefined
  /\ incomingFrame(c, m)

onOutgoingMessage(c, m) ==
  /\ sources[c].status = "open"
  \* the Publisher writes on a subscription that was started and not ended
  /\ sources[c].started
  /\ m \in ServerFrames(sources[c].sub)
  /\ state' = CASE m.type = "data" ->
                     updateSubscriptionState(state, sources[c].clientId, m.cursor)
                [] m.type = "complete" /\ proxyImpl = "backup" ->
                     removeSubscription(state, sources[c].clientId)
                [] OTHER -> state
  /\ sources' = [sources EXCEPT ![c].started = m.type = "data",
                   ![c].forwarded = IF m.type = "data" THEN m.cursor ELSE Null]
  /\ UNCHANGED <<proxyImpl, now, lastPong, backup, resends>>

onPong ==
  /\ lastPong' = now
  /\ backup' = pongFilter(backup, lastPong')
  /\ resends' = [k \in DOMAIN resends |->
                   IF resends[k].live
                   THEN [resends[k] EXCEPT !.live = FALSE, !.arr = backup]
                   ELSE resends[k]]
  /\ UNCHANGED <<proxyImpl, now, state, sources>>

\* an onDisconnect that forgets `backup.length = 0`
onDisconnectKeepsBackup(c) ==
  /\ sources[c].status = "open"
  /\ state' = removeAllSubscriptions(state, sources[c].clientId)
  /\ sources' = [sources EXCEPT ![c].status = "closed", ![c].started = FALSE,
                                ![c].forwarded = Null]
  /\ UNCHANGED <<proxyImpl, now, lastPong, backup, resends>>

onDisconnect(c) ==
  /\ sources[c].status = "open"
  /\ state' = removeAllSubscriptions(state, sources[c].clientId)
  /\ backup' = << >>
  /\ sources' = [sources EXCEPT ![c].status = "closed", ![c].started = FALSE,
                                ![c].forwarded = Null]
  /\ UNCHANGED <<proxyImpl, now, lastPong, resends>>

onReconnect(c) ==
  LET target == sources[c].target + 1
      restored == restoreSubscriptions(state, sources[c].clientId)
      r == resendMessages(c, target,
             [k \in DOMAIN restored |-> [via |-> "restore", message |-> restored[k]]])
  IN
  /\ sources[c].status = "open"
  /\ Len(resends) < MaxResends
  /\ sources' = [sources EXCEPT ![c].target = target]
  /\ resends' = Append(resends, resendTurn(r))
  /\ UNCHANGED <<proxyImpl, now, lastPong, backup, state>>

\* the wait(250) of a resendMessages() call is over: its loop goes on
resendContinues(k) ==
  /\ k \in DOMAIN resends
  /\ ~resends[k].done
  /\ resends' = [resends EXCEPT ![k] = resendTurn(@)]
  /\ UNCHANGED <<proxyImpl, now, lastPong, backup, state, sources>>

\* Date.now() is the wall clock: it moves on, and it can be set back
clockAdvances ==
  /\ now < MaxTime
  /\ now' = now + 1
  /\ UNCHANGED <<proxyImpl, lastPong, backup, state, sources, resends>>

clockSetBack(t) ==
  /\ t < now
  /\ now' = t
  /\ UNCHANGED <<proxyImpl, lastPong, backup, state, sources, resends>>

\* the hooks that keep the buffer and the recorded subscriptions, without
\* upstream reconnects (which change neither)
NextHooks ==
  \/ \E c \in DOMAIN sources : \E id \in IdsFor(c) :
       onConnect(c, id) /\ UNCHANGED <<pubVars, sysVars>>
  \/ \E c \in DOMAIN sources : \E m \in ClientFrames(sources[c].sub) :
       onIncomingMessage(c, m) /\ UNCHANGED <<pubVars, sysVars>>
  \/ \E c \in DOMAIN sources : \E m \in ServerFrames(sources[c].sub) :
       onOutgoingMessage(c, m) /\ UNCHANGED <<pubVars, sysVars>>
  \/ onPong /\ UNCHANGED <<pubVars, sysVars>>
  \/ \E c \in DOMAIN sources : onDisconnect(c) /\ UNCHANGED <<pubVars, sysVars>>
  \/ clockAdvances /\ UNCHANGED <<pubVars, sysVars>>
  \/ \E t \in 0..MaxTime : clockSetBack(t) /\ UNCHANGED <<pubVars, sysVars>>

InitProxy(n) ==
  /\ InitPublisher /\ impl = "unstable"
  /\ InitSys
  /\ InitIntermediary(n)

\* the proxy with backup
InitHooks == InitProxy(MaxSources) /\ proxyImpl = "backup"

SpecHooks == InitHooks /\ [][NextHooks]_vars

\* the Intermediary with upstream reconnects: clients in front, a Publisher
\* behind, both abstract; Date.now() is not set back
NextProxy ==
  \/ \E c \in DOMAIN sources : \E id \in IdsFor(c) :
       onConnect(c, id) /\ UNCHANGED <<pubVars, sysVars>>
  \/ \E c \in DOMAIN sources : \E m \in ClientFrames(sources[c].sub) :
       onIncomingMessage(c, m) /\ UNCHANGED <<pubVars, sysVars>>
  \/ \E c \in DOMAIN sources : \E m \in ServerFrames(sources[c].sub) :
       onOutgoingMessage(c, m) /\ UNCHANGED <<pubVars, sysVars>>
  \/ onPong /\ UNCHANGED <<pubVars, sysVars>>
  \/ \E c \in DOMAIN sources : onDisconnect(c) /\ UNCHANGED <<pubVars, sysVars>>
  \/ \E c \in DOMAIN sources : onReconnect(c) /\ UNCHANGED <<pubVars, sysVars>>
  \/ \E k \in 1..MaxResends :
       resendContinues(k) /\ UNCHANGED <<pubVars, sysVars>>
  \/ clockAdvances /\ UNCHANGED <<pubVars, sysVars>>

\* either proxy, with the connections of SpecHooks
InitEither == InitProxy(MaxSources) /\ proxyImpl \in ProxyImpls

SpecProxy == InitEither /\ [][NextProxy]_vars

\* the proxy with backup in front of several clients (demo-proxy.js runs
\* three), while no pong arrives
NextShared ==
  \/ \E c \in DOMAIN sources : \E id \in IdsFor(c) :
       onConnect(c, id) /\ UNCHANGED <<pubVars, sysVars>>
  \/ \E c \in DOMAIN sources : \E m \in ClientFrames(sources[c].sub) :
       onIncomingMessage(c, m) /\ UNCHANGED <<pubVars, sysVars>>
  \/ \E c \in DOMAIN sources : \E m \in ServerFrames(sources[c].sub) :
       onOutgoingMessage(c, m) /\ UNCHANGED <<pubVars, sysVars>>
  \/ \E c \in DOMAIN sources : onDisconnect(c) /\ UNCHANGED <<pubVars, sysVars>>
  \/ \E c \in DOMAIN sources : onReconnect(c) /\ UNCHANGED <<pubVars, sysVars>>
  \/ \E k \in 1..MaxResends :
       resendContinues(k) /\ UNCHANGED <<pubVars, sysVars>>
  \/ clockAdvances /\ UNCHANGED <<pubVars, sysVars>>

InitShared == InitProxy(MaxProxySources) /\ proxyImpl = "backup"

SpecShared == InitShared /\ [][NextShared]_vars

\* the proxy with backup in front of the client that keeps a Map of
\* subscriptions: every subscribe() call on a connection writes a start frame
\* with a new subscription id, unsubscribe(id) the stop frame of one of them
ManyFrames ==
  {Frame("connection_init", Undefined, Null)}
    \cup {Frame("stop", id, Null) : id \in SubIds}
    \cup {Frame("start", id, x) : id \in SubIds, x \in DataIds \cup {Null}}

onIncomingMany(c, m) ==
  /\ m \in ManyFrames
  \* connection_init comes first; a subscription is started once and
  \* stopped after it was started
  /\ m.type = "connection_init" => sources[c].clientId = Undefined
  /\ m.type = "start" => ~state[m.id].recorded
  /\ m.type = "stop" => state[m.id].recorded
  /\ incomingFrame(c, m)

NextIdentity ==
  \/ \E c \in DOMAIN sources :
       onConnect(c, SubIdSeq[1]) /\ UNCHANGED <<pubVars, sysVars>>
  \/ \E c \in DOMAIN sources : \E m \in ManyFrames :
       onIncomingMany(c, m) /\ UNCHANGED <<pubVars, sysVars>>
  \/ onPong /\ UNCHANGED <<pubVars, sysVars>>
  \/ \E c \in DOMAIN sources : onDisconnect(c) /\ UNCHANGED <<pubVars, sysVars>>
  \/ \E c \in DOMAIN sources : onReconnect(c) /\ UNCHANGED <<pubVars, sysVars>>
  \/ \E k \in 1..MaxResends :
       resendContinues(k) /\ UNCHANGED <<pubVars, sysVars>>
  \/ clockAdvances /\ UNCHANGED <<pubVars, sysVars>>

SpecIdentity == InitHooks /\ [][NextIdentity]_vars

\* =================================================================== claims
\* position of a logged message in the Message Log (ids are unique)
PosOf(m) == CHOOSE k \in 1..Len(messages) : messages[k] = m

\* the subscription was started with a cursor that is in the log
Found(sub) ==
  sub.id # Null /\ \E k \in 1..sub.startLen : messages[k] = sub.id

\* the log entries after the cursor at the moment the subscription was started
LoggedAfter(sub) == SubSeq(messages, PosOf(sub.id) + 1, sub.startLen)

IsPrefix(a, b) == Len(a) <= Len(b) /\ SubSeq(b, 1, Len(a)) = a

NoDuplicates(seq) ==
  \A i, j \in DOMAIN seq : i # j => seq[i] # seq[j]

\* nothing of the subscription is in flight inside the Publisher: its backfill
\* is complete, it listens to the live feed, no push is pending
Settled(sub) ==
  /\ sub.open /\ sub.listening /\ ~sub.run
  /\ sub.sleeping = <<>> /\ sub.live = <<>>
  /\ sub.yielded = Len(sub.messagesToSend)

\* what the subscription was sent of the log entries after its cursor
SentAfterCursor(sub) ==
  LET after(m) == PosOf(m) > PosOf(sub.id) IN SelectSeq(sub.out, after)

\* C2: a subscription started with a cursor M that is in the log is sent the
\* log entries that were after M when it was started, in log order and without
\* a gap, and all of them before any message published later.
C2_ResumeCorrect ==
  \A s \in DOMAIN subscriptions :
    LET sub == subscriptions[s] IN
      Found(sub) =>
        /\ IsPrefix(SentAfterCursor(sub), LoggedAfter(sub))
             \/ IsPrefix(LoggedAfter(sub), SentAfterCursor(sub))
        /\ sub.yielded = Len(sub.messagesToSend)
             => IsPrefix(LoggedAfter(sub), SentAfterCursor(sub))

C2_Witness ==
  \E s \in DOMAIN subscriptions :
    LET sub == subscriptions[s] IN
      /\ impl = "unstable" /\ Found(sub)
      /\ LoggedAfter(sub) # <<>>
      /\ \E k \in DOMAIN sub.out : PosOf(sub.out[k]) > sub.startLen

\* C3: after the backfill of a subscription started with a found cursor, every
\* message published after the start is delivered to the subscription: once
\* nothing is in flight for it, it has been sent all of them.
C3_LiveAfterBackfill ==
  \A s \in DOMAIN subscriptions :
    LET sub == subscriptions[s] IN
      (Found(sub) /\ Settled(sub)) =>
        \A k \in (sub.startLen + 1)..Len(messages) :
          messages[k] \in Range(sub.out)

\* C4: the backfill of a subscription started with a found cursor M is exactly
\* the log entries after M, in log order, M itself excluded; it is empty when
\* M is the last entry.
C4_BackfillExact ==
  \A s \in DOMAIN subscriptions :
    LET sub == subscriptions[s] IN
      Found(sub) => sub.messagesToSend = LoggedAfter(sub)

\* C5: a subscription started with a cursor is never pushed the same message
\* twice (what the backfill delivered is not delivered again by the live feed).
C5_NoDuplicatePush ==
  \A s \in DOMAIN subscriptions :
    LET sub == subscriptions[s] IN
      sub.id # Null => NoDuplicates(sub.out)

C5_Witness ==
  \E s \in DOMAIN subscriptions :
    LET sub == subscriptions[s] IN
      /\ Found(sub) /\ sub.messagesToSend # <<>>
      /\ sub.nlive > 0
      /\ Len(sub.out) = Len(sub.messagesToSend) + sub.nlive

\* C6: a subscription started with a cursor that is the id of no logged
\* message is established live-only: no backfill, and every message published
\* after the start is delivered to it.
C6_FallbackLiveOnly ==
  \A s \in DOMAIN subscriptions :
    LET sub == subscriptions[s] IN
      (sub.id # Null /\ ~Found(sub)) =>
        /\ sub.kind # "failed"
        /\ sub.messagesToSend = <<>>
        /\ Settled(sub) =>
             \A k \in (sub.startLen + 1)..Len(messages) :
               messages[k] \in Range(sub.out)

\* C8: a subscription started without a cursor is never sent a message that
\* was in the log before the subscription was started.
C8_LiveOnlyWithoutCursor ==
  \A s \in DOMAIN subscriptions :
    LET sub == subscriptions[s] IN
      sub.id = Null =>
        \A k \in DOMAIN sub.out : PosOf(sub.out[k]) > sub.startLen

C8_Witness ==
  \E s \in DOMAIN subscriptions :
    LET sub == subscriptions[s] IN
      sub.id = Null /\ sub.startLen > 0 /\ sub.out # <<>>

\* the ids the handler of the Subscriber was called with
HandledIds == {client.handled[i].id : i \in DOMAIN client.handled}

\* the subscription was started by the re-subscribe of attemptReconnect
Restored(s) == sessions[subSession[s]].awaiter = "reconnect"

\* subscription s is the one of the current session of the Subscriber, and
\* nothing is in flight between the Publisher and the Subscriber
Quiet(s) ==
  /\ client.ws = subSession[s] /\ client.connected
  /\ client.sleeping = 0 /\ client.subscriptionId # NullRef
  /\ sessions[client.ws].state = "open"
  /\ sessions[client.ws].toServer = <<>>
  /\ Settled(subscriptions[s])
  /\ recv[s] = Len(subscriptions[s].out)

\* C1: the Subscriber has subscribed and never calls unsubscribe() or
\* disconnect(); once a
\* (re)connect has succeeded and nothing is in flight any more, every message
\* appended to the log after the first subscription was started has been passed
\* to the handler.
C1_AtLeastOnce ==
  \A s \in DOMAIN subscriptions :
    (Alive /\ user.lastCall = "subscribe" /\ ~user.quit /\ Quiet(s)) =>
      \A k \in (user.establishedAt + 1)..Len(messages) :
        messages[k] \in HandledIds

\* the messages published while the Subscriber was disconnected, for a
\* subscription restored after that disconnect
WhileDisconnected(s) ==
  {messages[k] : k \in (user.downAt + 1)..subscriptions[s].startLen}

\* C7: a Subscriber that has subscribed and reconnects without a cursor has
\* received the messages that were published while it was disconnected, once
\* nothing is in flight any more.
C7_ScenarioB ==
  \A s \in DOMAIN subscriptions :
    (Alive /\ user.lastCall = "subscribe" /\ Restored(s)
       /\ subscriptions[s].id = Null /\ user.downAt >= 0 /\ Quiet(s)) =>
      WhileDisconnected(s) \subseteq HandledIds

C10_NoCallAfterUnsubscribe ==
  [][(/\ user.unsubscribedAt >= 0 /\ user.unsubHandler # NullRef
      /\ Len(client'.handled) > Len(client.handled)) =>
       LET call == client'.handled[Len(client'.handled)] IN
         ~(call.handler = user.unsubHandler
             /\ PosOf(call.id) > user.unsubscribedAt)]_vars

\* C11: the attempt counter goes back to 0 only in a step after which the
\* current transport session of the Subscriber is acknowledged.
C11_ResetOnlyAfterAck ==
  [][(client.reconnectAttempts > 0 /\ client'.reconnectAttempts = 0) =>
       /\ client'.ws # Null
       /\ sessions'[client'.ws].acked]_vars

\* a step in which attemptReconnect was called
Reconnecting == client'.sleeping > client.sleeping

\* a step in which attemptReconnect was called because the reconnect attempt
\* made with session k failed (it was not acknowledged)
AttemptFailed(k) ==
  /\ Reconnecting
  /\ sessions'[k] # sessions[k]
  /\ sessions[k].awaiter = "reconnect" /\ ~sessions'[k].acked

\* C12: the delay of reconnect attempt k (the counter after its increment,
\* 1..5) is min(initialDelay * 2^(k-1), maxDelay); it never exceeds maxDelay,
\* and the delay that follows a failed reconnect attempt is not smaller than
\* the delay slept before that attempt.
C12_BackoffMonotone ==
  [][/\ Reconnecting =>
          /\ client'.reconnectAttempts \in 1..MAX_RECONNECT_ATTEMPTS
          /\ client'.delay =
               Min(INITIAL_RECONNECT_DELAY * 2 ^ (client'.reconnectAttempts - 1),
                   MAX_RECONNECT_DELAY)
          /\ client'.delay <= MAX_RECONNECT_DELAY
     /\ \A k \in DOMAIN sessions :
          AttemptFailed(k) => client'.delay >= client.delay]_vars

\* the reconnect attempts that have failed in a row: the sessions opened by
\* attemptReconnect after the last acknowledged session that were not
\* acknowledged and whose connect() was rejected or whose transport went away
FailedInRow(ss) ==
  LET lastAcked == IF \E k \in DOMAIN ss : ss[k].acked
                   THEN CHOOSE k \in DOMAIN ss :
                          ss[k].acked /\ \A j \in DOMAIN ss : ss[j].acked => j <= k
                   ELSE 0
  IN Cardinality({k \in DOMAIN ss :
       /\ k > lastAcked /\ ss[k].awaiter = "reconnect"
       /\ ss[k].promise = "rejected" \/ ss[k].state \in {"down", "closed"}})

\* C13: once the maximum number of reconnect attempts has failed in a row, no
\* further reconnect attempt is scheduled.
C13_StaysDisconnected ==
  [][Reconnecting => FailedInRow(sessions') < MAX_RECONNECT_ATTEMPTS]_vars

\* the start frames sent on the sessions
StartFrames(ss) ==
  {<<k, i>> \in (DOMAIN ss) \X (1..MaxCalls + MaxClientSessions) :
     i \in DOMAIN ss[k].toServer /\ ss[k].toServer[i].type = "start"}

\* disconnect() has been called (nothing else clears shouldReconnect)
Terminated == ~client.shouldReconnect

\* C14: after disconnect() the Subscriber opens no transport session, sends no
\* start frame and does not become connected.
C14_DisconnectTerminal ==
  [][Terminated =>
       /\ Len(sessions') = Len(sessions)
       /\ StartFrames(sessions') \subseteq StartFrames(sessions)
       /\ client'.connected => client.connected]_vars

\* a step that is a call of disconnect() on a client that holds a session
DisconnectCall ==
  /\ user'.calls = user.calls + 1
  /\ user'.lastCall \in {"disconnect", "disconnect-threw"}
  /\ client.ws # Null

\* C15: disconnect() on a Subscriber that holds a transport session returns
\* without error, with the heartbeat stopped, connected false, and the
\* subscription id, the handler and the transport reference null.
C15_DisconnectClears ==
  [][DisconnectCall =>
       /\ user'.lastCall = "disconnect"
       /\ ~client'.heartbeatInterval /\ ~client'.connected
       /\ client'.subscriptionId = NullRef
       /\ client'.messageHandler = NullRef
       /\ client'.ws = Null]_vars

\* a step in which the reconnect attempt made with session k, the session the
\* client holds, succeeds (its connection_ack arrives in time and connect()
\* resolves) for a Subscriber whose subscription was started on the session
\* the user opened
ReconnectSucceeds(k) ==
  /\ sessions[k].awaiter = "reconnect" /\ client.ws = k
  /\ sessions[k].promise = "pending" /\ sessions'[k].promise = "resolved"
  /\ client.messageHandler # NullRef /\ Started(1)

\* C16: when an automatic reconnect succeeds, exactly one start frame is sent,
\* on the new session, and its cursor is the id of the last observed message
\* (none when no message was observed).
C16_ResubscribeWithCursor ==
  [][\A k \in DOMAIN sessions :
       ReconnectSucceeds(k) =>
         /\ sessions'[k].toServer =
              Append(sessions[k].toServer,
                     [type |-> "start", id |-> client.lastMessageId])
         /\ \A j \in DOMAIN sessions :
              j # k => sessions'[j].toServer = sessions[j].toServer]_vars

\* ------------------------------------------------------------ Intermediary
\* a step in which a liveness acknowledgment was handled and had an effect:
\* the checkpoint or the buffer changed, nothing was added, no connection,
\* recorded subscription or clock changed
PongHandled ==
  /\ <<lastPong, backup>>' # <<lastPong, backup>>
  /\ Len(backup') <= Len(backup)
  /\ UNCHANGED <<now, state, sources>>

\* the entries of a buffer stamped after T, in their order
LaterThan(b, T) == SelectSeq(b, LAMBDA e : e.timestamp > T)

\* C17: immediately after a liveness acknowledgment is handled at time T the
\* checkpoint equals T, the Backup Buffer has no entry stamped at or before
\* T, and the entries stamped later are kept in their order.
C17_PongPrunes ==
  [][PongHandled =>
       /\ lastPong' = now
       /\ \A k \in DOMAIN backup' : backup'[k].timestamp > now
       /\ backup' = LaterThan(backup, now)]_vars

\* a pong was handled after the module was loaded and pruned the start frame
\* of a subscription that is still recorded on an open connection
C17_Witness ==
  /\ lastPong > 0 /\ lastPong = now /\ backup = << >>
  /\ \E c \in DOMAIN sources :
       /\ sources[c].status = "open"
       /\ sources[c].clientId # Undefined
       /\ state[sources[c].clientId].recorded

\* what a resendMessages() call has replayed so far / what was restored
Replayed(r) ==
  LET s == SelectSeq(r.out, LAMBDA o : o.via = "resend")
  IN [k \in DOMAIN s |-> s[k].message]

Reissued(r) ==
  LET s == SelectSeq(r.out, LAMBDA o : o.via = "restore")
  IN [k \in DOMAIN s |-> s[k].message]

\* the frames of the buffer entries stamped after the checkpoint and not after
\* the time of the reconnect, as the reconnect found them
ToReplay(r) ==
  LET s == SelectSeq(r.at.backup,
             LAMBDA e : e.timestamp > r.at.lastPong /\ e.timestamp <= r.now)
  IN [k \in DOMAIN s |-> s[k].message]

\* every restored start frame was sent before every replayed frame
RestoreFirst(r) ==
  \A i, j \in DOMAIN r.out :
    (r.out[i].via = "restore" /\ r.out[j].via = "resend") => i < j

\* C18: on upstream reconnect the start frame of the recorded subscription of
\* the connection is re-issued to the new target before any buffered frame is
\* replayed, and the replayed frames are exactly the buffer entries stamped
\* after the checkpoint and not after the time of the reconnect, in buffer
\* order: nothing stamped at or before the checkpoint is replayed.
C18_ReplayAfterCheckpoint ==
  \A k \in DOMAIN resends :
    LET r == resends[k]
    IN /\ RestoreFirst(r)
       /\ r.at.recorded.recorded => Len(Reissued(r)) = 1
       /\ IsPrefix(Replayed(r), ToReplay(r))
       /\ r.done => Replayed(r) = ToReplay(r)

\* C19: when a data frame with id X was the last one forwarded on a connection
\* whose subscription is active, an upstream reconnect of that connection
\* restores the subscription with one start frame whose cursor is X.
C19_RestoreWithLastForwarded ==
  \A k \in DOMAIN resends :
    LET r == resends[k]
    IN r.at.forwarded # Null =>
         /\ Len(Reissued(r)) = 1
         /\ Reissued(r)[1].type = "start"
         /\ Reissued(r)[1].cursor = r.at.forwarded

\* a step in which the downstream connection c is closed
Disconnects(c) ==
  sources[c].status = "open" /\ sources'[c].status = "closed"

C21_OnlyStartBuffered ==
  [][\A c \in DOMAIN sources : \A m \in ClientFrames(sources[c].sub) :
       onIncomingMessage(c, m) =>
         IF m.type = "start"
         THEN /\ backup' = Append(backup, [message |-> m, timestamp |-> now])
              /\ state'[m.id] = [recorded |-> TRUE, cursor |-> m.cursor]
              /\ \A i \in DOMAIN state \ {m.id} : state'[i] = state[i]
         ELSE backup' = backup /\ state' = state]_vars

\* C22: an outbound complete frame removes the recorded subscription of its
\* connection, so that a reconnect after it restores nothing for that
\* connection; an outbound error frame changes neither the recorded
\* subscriptions nor the Backup Buffer.
C22_CompleteRemoves ==
  [][\A c \in DOMAIN sources : \A m \in ServerFrames(sources[c].sub) :
       onOutgoingMessage(c, m) =>
         /\ m.type = "complete" =>
              /\ ~state'[sources[c].clientId].recorded
              /\ restoreSubscriptions(state', sources[c].clientId) = << >>
         /\ m.type = "error" => state' = state /\ backup' = backup]_vars

\* ------------------------------------------------------------ Publisher feed
\* what the live feed gave a subscription of the unstable server: the messages
\* its listener pushed, then those whose push is still deferred
LivePushed(sub) == SubSeq(sub.out, Len(sub.out) - sub.nlive + 1, Len(sub.out))
LiveFeed(sub) == LivePushed(sub) \o sub.sleeping

\* the messages published since the subscription was started, in log order
PublishedSince(sub) ==
  [i \in 1..(Len(messages) - sub.startLen) |-> messages[sub.startLen + i]]

C24_LogAppendOnly ==
  /\ [][IsPrefix(messages, messages')]_vars
  /\ [](NoDuplicates(messages))

C24_Witness == Len(messages) >= 3 /\ subscriptions # << >>

\* C25: within one subscription the live messages are pushed in the order in
\* which they were published, although every push is deferred by the
\* per-message delay: of two messages pushed from the live feed, the one
\* pushed first is the one logged first.
C25_LiveInPublishOrder ==
  \A s \in DOMAIN subscriptions :
    LET pushed == LivePushed(subscriptions[s]) IN
      \A i, j \in DOMAIN pushed :
        i < j => PosOf(pushed[i]) < PosOf(pushed[j])

C25_Witness ==
  /\ impl = "unstable"
  /\ \E s \in DOMAIN subscriptions : Len(LivePushed(subscriptions[s])) = 3

\* ----------------------------------------------------------- Publisher faults
\* the subscriptions selected to have a fault so far
NumSelected ==
  Cardinality({s \in DOMAIN subscriptions : subscriptions[s].problem # "none"})

\* C26: fault kinds are assigned in round-robin: the n-th subscription selected
\* to have a fault (n counted from 0) is scheduled with exactly one kind, the
\* one at position n mod 3 of (unresponsive, close_connection,
\* break_connection), and a subscription that is not selected is scheduled
\* with none.
C26_RoundRobin ==
  [][\A selected \in BOOLEAN :
       pubsubSubscribe(Null, selected) =>
         LET sub == subscriptions'[Len(subscriptions) + 1] IN
           /\ sub.problem = IF selected
                            THEN problems[(NumSelected % 3) + 1] ELSE "none"
           /\ sub.timer = selected]_vars

C26_Witness ==
  /\ Len(subscriptions) = 4 /\ NumSelected = 4
  /\ subscriptions[4].problem = "unresponsive"

\* C27: fault firing is one-shot per subscription: a fault fires only for a
\* subscription whose schedule still exists, that is one that has not ended
\* and for which no fault fired before, so that at most one fault ever fires
\* for a subscription and none after it ended.
C27_NoFaultAfterEnd ==
  [][\A s \in DOMAIN subscriptions :
       problemFires(s) =>
         /\ subscriptions[s].open
         /\ ~subscriptions[s].run
         /\ ~subscriptions'[s].timer]_vars

\* a subscription of connection k whose unresponsive fault has fired
UnresponsiveOn(k) ==
  \E s \in DOMAIN subscriptions :
    /\ subSession[s] = k
    /\ subscriptions[s].problem = "unresponsive" /\ subscriptions[s].run

\* C28: after the unresponsive fault of a subscription has fired, the
\* Publisher sends no pong on the connection of that subscription for any
\* later liveness probe, whatever other subscriptions were started on the
\* same connection.
C28_NoPongOnceUnresponsive ==
  [][\A k \in DOMAIN sessions :
       serverPing(k) /\ UnresponsiveOn(k) => sessions'[k].pongs = 0]_vars

\* ------------------------------------------------------- Subscriber handshake
\* the connect() the user awaited on session k failed with the connection
\* timeout: its promise was rejected while its socket was not down (the
\* 'error' handler rejects only after the socket went down), and the client
\* still holds that socket
TimedOut(k) ==
  /\ sessions[k].awaiter = "user" /\ client.ws = k
  /\ sessions[k].promise = "rejected"
  /\ sessions[k].state \in {"connecting", "open"}

ResolvedOnlyAcked ==
  \A k \in DOMAIN sessions : sessions[k].promise = "resolved" => sessions[k].acked

TimeoutFails ==
  \A k \in DOMAIN sessions :
    timeoutFires(k) /\ sessions[k].promise = "pending" /\ ~sessions[k].acked
      => sessions'[k].promise = "rejected"

NotConnectedAfterTimeout ==
  \A k \in DOMAIN sessions :
    TimedOut(k) =>
      /\ ~client.connected
      /\ \A h \in Handlers :
           LET w == subscribe(World, h, Null) IN w.threw /\ w.ss = sessions

\* C29: connect() resolves only after connection_ack was received on the
\* session it opened, and it fails when the connection timeout elapses without
\* acknowledgment; after a connect() that failed with the timeout the
\* Subscriber is not connected, and subscribe() throws 'Not connected to
\* server' without sending a frame.
C29_ConnectOutcome ==
  /\ [](ResolvedOnlyAcked /\ NotConnectedAfterTimeout)
  /\ [][TimeoutFails]_vars

\* C30: a malformed or unexpected frame received by the Subscriber keeps the
\* connection alive: the Subscriber keeps running, the transport session stays
\* open, connected and the subscription are unchanged, and a pending connect()
\* is not failed by it.
C30_FrameKeepsAlive ==
  [][\A k \in DOMAIN sessions : \A kind \in FrameKinds :
       anyFrame(k, kind) =>
         /\ ~client'.crashed
         /\ sessions'[k].state = "open"
         /\ sessions'[k].promise = sessions[k].promise
         /\ client'.connected = client.connected
         /\ client'.subscriptionId = client.subscriptionId
         /\ client'.messageHandler = client.messageHandler]_vars

\* ------------------------------------------------------------------ Scenario C
\* the abrupt-close fault of subscription s has fired
BreakFired(s) ==
  /\ s \in DOMAIN subscriptions
  /\ subscriptions[s].problem = "break_connection" /\ ~subscriptions[s].timer

\* the id of the last message the client was delivered on the subscriptions
\* up to s (none: Null)
ObservedThrough(s) ==
  LET D == {i \in 1..s : recv[i] > 0} IN
    IF D = {} THEN Null
    ELSE LET i == CHOOSE i \in D : \A j \in D : j <= i
         IN subscriptions[i].out[recv[i]]

\* the subscription after s was started on a later, acknowledged session with
\* the last observed id as its cursor
ResumedAfter(s) ==
  /\ s + 1 \in DOMAIN subscriptions
  /\ subSession[s + 1] > subSession[s]
  /\ sessions[subSession[s + 1]].acked
  /\ sessions[subSession[s + 1]].awaiter = "reconnect"
  /\ subscriptions[s + 1].id = ObservedThrough(s)

\* C31: Scenario C: when an abrupt-close fault fires on the session of a
\* Subscriber with an active subscription and reconnection enabled, and the
\* Publisher accepts connections, the Subscriber eventually is connected again
\* on a new session with its subscription resumed from the last message id it
\* observed.
C31_ScenarioC ==
  \A s \in 1..MaxScenarioSessions : BreakFired(s) ~> ResumedAfter(s)

C31_Witness ==
  \E s \in DOMAIN subscriptions :
    /\ BreakFired(s) /\ ResumedAfter(s)
    /\ ObservedThrough(s) # Null
    /\ client.connected

\* ------------------------------------------------------------------- Trackers
\* the handler calls of the client so far, and their prefixes
HandledPrefixes == {SubSeq(client.handled, 1, n) : n \in 0..Len(client.handled)}

BookkeepingSound(ti) ==
  \A h \in HandledPrefixes :
    LET tr == Track(ti, h) IN
      /\ NoDuplicates(tr.receivedMessages)
      /\ lostMessages(ti, tr) =
           Cardinality({i \in DOMAIN messages :
                          messages[i] \notin Range(tr.receivedMessages)})
      /\ \A id \in Range(tr.receivedMessages) :
           LET tr2 == trackerOnMessage(ti, tr, id) IN
             /\ tr2.receivedMessages = tr.receivedMessages
             /\ tr2.lastReceivedMessageId = tr.lastReceivedMessageId
             /\ tr2.duplicatedMessages = Append(tr.duplicatedMessages, id)

\* C32: duplicate deliveries do not corrupt the subscriber-side bookkeeping:
\* after every sequence of deliveries the tracker's list of received ids holds
\* every id at most once, a delivery whose id is already in the list is
\* recorded as a duplicate and changes neither the list nor the last-received
\* id, and the messages counted as lost are those whose id is not in the list.
C32_TrackerBookkeeping == \A ti \in TrackerImpls : BookkeepingSound(ti)

\* C33: the resume cursor of the Subscriber is monotonic: whenever a step
\* changes lastMessageId from one logged message to another, the new one is
\* not before the old one in the Message Log, whatever data frames arrive
\* (re-delivered ones included).
CursorForward ==
  (/\ client.lastMessageId # Null
   /\ client.lastMessageId \in Range(messages)
   /\ client'.lastMessageId \in Range(messages))
  => PosOf(client'.lastMessageId) >= PosOf(client.lastMessageId)

C33_CursorMonotonic == [][CursorForward]_vars

\* a resendMessages() call run to the end of its loop
RECURSIVE resendAll(_)
resendAll(r) == IF r.done THEN r ELSE resendAll(resendTurn(r))

\* what an upstream reconnect of connection c sends to the new target when it
\* happens now: the restored subscriptions, then the replay
ReconnectSends(c) ==
  LET restored == restoreSubscriptions(state, sources[c].clientId)
      r == resendMessages(c, sources[c].target + 1,
             [k \in DOMAIN restored |->
                [via |-> "restore", message |-> restored[k]]])
  IN resendAll(r).out

\* the start frames among them that are for the subscription of connection c
StartsFor(c) ==
  {k \in DOMAIN ReconnectSends(c) :
     /\ ReconnectSends(c)[k].message.type = "start"
     /\ ReconnectSends(c)[k].message.id = sources[c].sub}

\* C34: once the client of a connection sent a stop frame for its
\* subscription, an upstream reconnect of that connection re-issues no start
\* frame for it, neither from the recorded subscriptions nor from the buffer.
StopForgets ==
  \A c \in DOMAIN sources :
    onIncomingMessage(c, Frame("stop", sources[c].sub, Null)) => StartsFor(c)' = {}

C34_NoStartAfterStop == [][StopForgets]_vars

\* the replay of an upstream reconnect sent only frames its own connection
\* wrote (a client writes frames with its subscription id, or without id)
ReplayOwnFrames(r) ==
  \A j \in DOMAIN r.out :
    r.out[j].via = "resend"
      => r.out[j].message.id \in {sources[r.source].sub, Undefined}

\* the buffered frames that carry the subscription id of connection a
BufferedOf(a) == SelectSeq(backup, LAMBDA e : e.message.id = sources[a].sub)

\* the disconnect of connection b leaves what connection a buffered and recorded
DisconnectSpares(a, b) ==
  (/\ a # b /\ sources[a].status = "open" /\ sources[a].sub # sources[b].sub
   /\ onDisconnect(b))
  => /\ BufferedOf(a)' = BufferedOf(a)
     /\ state'[sources[a].sub] = state[sources[a].sub]

\* C35: replay is isolated per downstream connection: the frames replayed to
\* the new upstream connection of a connection are frames received from it,
\* and the disconnect of another connection removes none of its buffered
\* frames and none of its recorded subscriptions.
C35_ReplayIsolated ==
  /\ [](\A k \in DOMAIN resends : ReplayOwnFrames(resends[k]))
  /\ [][\A a, b \in DOMAIN sources : DisconnectSpares(a, b)]_vars

\* the loop of the k-th resendMessages() call goes on after a wait and sends
\* a frame: that frame is in the buffer at that moment
SendsBuffered(k) ==
  (/\ resendContinues(k)
   /\ Len(resends'[k].out) > Len(resends[k].out))
  => \E e \in Range(backup) :
        e.message = resends'[k].out[Len(resends'[k].out)].message

\* C36: a paced replay never sends a frame that is no longer in the Backup
\* Buffer: what a pong pruned or a disconnect cleared while resendMessages
\* waited between two sends is not sent upstream afterwards.
C36_ReplaySendsBufferedOnly == [][\A k \in 1..MaxResends : SendsBuffered(k)]_vars

\* a step leaves an open connection the key it has, once that is defined
KeyKept(c) ==
  (/\ sources[c].status = "open" /\ sources'[c].status = "open"
   /\ sources[c].clientId # Undefined)
  => sources'[c].clientId = sources[c].clientId

\* C37: the connection identity that keys a downstream connection is stable:
\* once it has a defined value, every later inbound frame of the connection,
\* with or without an id, leaves it unchanged, so that the key at disconnect
\* and reconnect is the key under which the subscription was recorded.
C37_KeyStable == [][\A c \in DOMAIN sources : KeyKept(c)]_vars

====
